---- MODULE Spec2Model ----
(***************************************************************************)
(* Model of solve_biomass_model (src/main.py): the linear program that     *)
(* allocates slash and woodchips to the selected products, its solution,   *)
(* and the detail table derived from the solution.                         *)
(*                                                                         *)
(* Number representation.  The source works on floats; the model works on  *)
(* exact integers:                                                         *)
(*   - tonnages are integers counted in a resolution of units_per_ton      *)
(*     units per green ton (2 = half tons, 2*10^6 = half micro-tons);      *)
(*   - $/gt inputs are whole dollars, reg_factor is a whole percentage,    *)
(*     so every per-ton amount is an exact number of cents;                *)
(*   - a total is a number of (cents x units), i.e. cents * units_per_ton. *)
(* The solver is modelled by what it computes: an optimal solution of the  *)
(* linear program, searched on the grid of multiples of grain.             *)
(***************************************************************************)
EXTENDS Integers, Sequences, FiniteSets, TLC

\* Availabilities and allocations range over 0..MaxK grains.
MaxK == 2

VARIABLES
    units_per_ton,            \* resolution of the tonnages of this call
    grain,                    \* step of the tonnages of this call, in units
    slash_avail,
    woodchips_avail,
    include_woodchips,
    selected_products,
    max_volume,
    processing_cost,
    depreciation_per_ton,
    slash_harvest_cost,
    slash_transport_cost,
    slash_wood_cost,
    slash_carbon_credit,
    woodchips_harvest_cost,
    woodchips_transport_cost,
    woodchips_wood_cost,
    woodchips_carbon_credit,
    market_price,
    max_deliv_cost,
    reg_factor,
    Q,                        \* Q[<<f, p>>]: solved value of the LP variable
    status_str,
    total_net_revenue,
    rows,                     \* the records of df_details, in order
    pc                        \* "start" -> "solved" -> "done"

inputs == <<units_per_ton, grain, slash_avail, woodchips_avail, include_woodchips,
            selected_products, max_volume, processing_cost, depreciation_per_ton,
            slash_harvest_cost, slash_transport_cost, slash_wood_cost,
            slash_carbon_credit, woodchips_harvest_cost, woodchips_transport_cost,
            woodchips_wood_cost, woodchips_carbon_credit, market_price,
            max_deliv_cost, reg_factor>>

vars == <<inputs, Q, status_str, total_net_revenue, rows, pc>>

-----------------------------------------------------------------------------
(* Helpers *)

Range(s) == {s[i] : i \in 1..Len(s)}

\* sum of F[s[i]] over the sequence s (pulp.lpSum over a list)
SumOver(s, F) ==
    LET f[i \in 0..Len(s)] == IF i = 0 THEN 0 ELSE f[i - 1] + F[s[i]]
    IN  f[Len(s)]

\* n/d rounded to the nearest integer, ties to even (Python's round)
RoundDiv(n, d) ==
    LET q == n \div d
        r == n - q * d
    IN  IF 2 * r < d THEN q
        ELSE IF 2 * r > d THEN q + 1
        ELSE IF q % 2 = 0 THEN q ELSE q + 1

-----------------------------------------------------------------------------
(* The inputs of a call *)

\* <<units_per_ton, grain>>: half micro-tons, half tons, 500-ton lots
Scales == {<<2 * 10^6, 1>>, <<2, 1>>, <<2, 1000>>}

Selections == {<<"Biochar">>, <<"RNG">>, <<"Biochar", "RNG">>, <<"RNG", "Biochar">>}

Avails == {k * grain : k \in 0..MaxK}

\* max_volume is at least one green ton: the smallest multiple of grain that
\* is, and a volume no allocation reaches
SmallVolume == IF grain >= units_per_ton THEN grain ELSE units_per_ton

VolumeChoices ==
    {SmallVolume} \cup
    (IF SmallVolume <= 2 * MaxK * grain THEN {1000 * SmallVolume} ELSE {})

Catalog == {"Biochar", "RNG"}

Prices == [p \in Catalog |-> IF p = "Biochar" THEN {20, 150} ELSE {180}]

SlashCredits == [p \in Catalog |-> IF p = "Biochar" THEN {15, 90} ELSE {0}]

CostCaps == [p \in Catalog |-> IF p = "Biochar" THEN {20, 50, 130} ELSE {50, 130}]

RegFactors == {5, 20}

\* the maps with one entry per selected product, drawn from S[p]
PerProduct(S) ==
    LET P == Range(selected_products)
    IN  {m \in [P -> UNION {S[p] : p \in P}] : \A p \in P : m[p] \in S[p]}

Fixed(v) == [p \in Range(selected_products) |-> v]

Init ==
    /\ \E sc \in Scales : units_per_ton = sc[1] /\ grain = sc[2]
    /\ selected_products \in Selections
    /\ include_woodchips \in BOOLEAN
    /\ slash_avail \in Avails
    /\ woodchips_avail \in (IF include_woodchips THEN Avails ELSE {0})
    /\ max_volume \in [Range(selected_products) -> VolumeChoices]
    /\ processing_cost = Fixed(10)
    /\ depreciation_per_ton = Fixed(0)
    /\ slash_harvest_cost = Fixed(25)
    /\ slash_transport_cost = Fixed(30)
    /\ slash_wood_cost = Fixed(0)
    /\ slash_carbon_credit \in PerProduct(SlashCredits)
    /\ woodchips_harvest_cost = Fixed(10)
    /\ woodchips_transport_cost = Fixed(5)
    /\ woodchips_wood_cost = Fixed(0)
    /\ woodchips_carbon_credit = Fixed(0)
    /\ market_price \in PerProduct(Prices)
    /\ max_deliv_cost \in PerProduct(CostCaps)
    /\ reg_factor \in RegFactors
    /\ Q = <<>>
    /\ status_str = "NotSolved"
    /\ total_net_revenue = 0
    /\ rows = <<>>
    /\ pc = "start"

-----------------------------------------------------------------------------
(* Model builder *)

feedstocks == IF include_woodchips THEN <<"slash", "woodchips">> ELSE <<"slash">>

\* the keys of Q: one variable per selected product and active feedstock
Pairs == {<<f, p>> : f \in Range(feedstocks), p \in Range(selected_products)}

\* harvest + transport + wood, $/gt
BaseCost(f, p) ==
    IF f = "slash"
    THEN slash_harvest_cost[p] + slash_transport_cost[p] + slash_wood_cost[p]
    ELSE woodchips_harvest_cost[p] + woodchips_transport_cost[p] + woodchips_wood_cost[p]

Carbon(f, p) ==
    IF f = "slash" THEN slash_carbon_credit[p] ELSE woodchips_carbon_credit[p]

\* base_cost * (1 + reg_factor) + processing_cost + depreciation_per_ton, cents/gt
DeliveredCost(f, p) ==
    BaseCost(f, p) * (100 + reg_factor)
        + 100 * (processing_cost[p] + depreciation_per_ton[p])

\* market_price + carbon, cents/gt
RevenuePerTon(f, p) == 100 * (market_price[p] + Carbon(f, p))

NetMargin(f, p) == RevenuePerTon(f, p) - DeliveredCost(f, p)

\* faulty variant: the objective sums revenue instead of net margin
ObjectiveOfRevenue(q) ==
    LET PerProd == [p \in Range(selected_products) |->
            LET Term == [f \in Range(feedstocks) |-> RevenuePerTon(f, p) * q[<<f, p>>]]
            IN  SumOver(feedstocks, Term)]
    IN  SumOver(selected_products, PerProd)

\* the objective: sum of net_margin * Q[(f, p)], product-major
Objective(q) ==
    LET PerProd == [p \in Range(selected_products) |->
            LET Term == [f \in Range(feedstocks) |-> NetMargin(f, p) * q[<<f, p>>]]
            IN  SumOver(feedstocks, Term)]
    IN  SumOver(selected_products, PerProd)

\* faulty variant: the bound is put on the first selected product only
SlashAvailFirstOnly(q, sa) == q[<<"slash", selected_products[1]>>] <= sa

\* faulty variant: the availability must be used up (== for <=)
SlashAvailEquality(q, sa) ==
    LET Tons == [p \in Range(selected_products) |-> q[<<"slash", p>>]]
    IN  SumOver(selected_products, Tons) = sa

\* 1) SlashAvail
SlashAvailOK(q, sa) ==
    LET Tons == [p \in Range(selected_products) |-> q[<<"slash", p>>]]
    IN  SumOver(selected_products, Tons) <= sa

\* faulty variant: the availability must be used up (== for <=)
WoodchipsAvailEquality(q, wa) ==
    include_woodchips =>
        LET Tons == [p \in Range(selected_products) |-> q[<<"woodchips", p>>]]
        IN  SumOver(selected_products, Tons) = wa

\* 2) WoodchipsAvail, only when woodchips is included
WoodchipsAvailOK(q, wa) ==
    include_woodchips =>
        LET Tons == [p \in Range(selected_products) |-> q[<<"woodchips", p>>]]
        IN  SumOver(selected_products, Tons) <= wa

\* faulty variant: the delivered cost of the constraint leaves out the regulatory factor
MaxDeliveredCostNoReg(q, p) ==
    LET Cost == [f \in Range(feedstocks) |->
                    100 * (BaseCost(f, p) + processing_cost[p] + depreciation_per_ton[p])
                        * q[<<f, p>>]]
        Tons == [f \in Range(feedstocks) |-> q[<<f, p>>]]
    IN  SumOver(feedstocks, Cost) <= 100 * max_deliv_cost[p] * SumOver(feedstocks, Tons)

\* faulty variant: the constraint caps the base cost instead of the delivered cost
MaxDeliveredCostBaseOnly(q, p) ==
    LET Cost == [f \in Range(feedstocks) |-> 100 * BaseCost(f, p) * q[<<f, p>>]]
        Tons == [f \in Range(feedstocks) |-> q[<<f, p>>]]
    IN  SumOver(feedstocks, Cost) <= 100 * max_deliv_cost[p] * SumOver(feedstocks, Tons)

\* 3) MaxDeliveredCost_p: sum of cost*tons <= max_deliv_cost[p] * sum of tons
MaxDeliveredCostOK(q, p) ==
    LET Cost == [f \in Range(feedstocks) |-> DeliveredCost(f, p) * q[<<f, p>>]]
        Tons == [f \in Range(feedstocks) |-> q[<<f, p>>]]
    IN  SumOver(feedstocks, Cost) <= 100 * max_deliv_cost[p] * SumOver(feedstocks, Tons)

\* faulty variant: the volume cap is put on slash only
MaxVolumeSlashOnly(q, p, mv) == q[<<"slash", p>>] <= mv[p]

\* 4) MaxVolume_p
MaxVolumeOK(q, p, mv) ==
    LET Tons == [f \in Range(feedstocks) |-> q[<<f, p>>]]
    IN  SumOver(feedstocks, Tons) <= mv[p]

\* lowBound=0 is the domain of q; the four constraint families
Feasible(q, sa, wa, mv) ==
    /\ SlashAvailOK(q, sa)
    /\ WoodchipsAvailOK(q, wa)
    /\ \A p \in Range(selected_products) : MaxDeliveredCostOK(q, p)
    /\ \A p \in Range(selected_products) : MaxVolumeOK(q, p, mv)

-----------------------------------------------------------------------------
(* Solver *)

\* the allocations the search ranges over
Alloc == [Pairs -> {k * grain : k \in 0..MaxK}]

FeasibleSet(sa, wa) == {q \in Alloc : Feasible(q, sa, wa, max_volume)}

\* faulty variant: the program is minimized
MinOf(S) == CHOOSE v \in S : \A w \in S : v <= w

\* sense=pulp.LpMaximize: the largest objective value
MaxOf(S) == CHOOSE v \in S : \A w \in S : w <= v

\* the optimal objective value of a program with the feasible set F
OptValue(F) == MaxOf({Objective(q) : q \in F})

\* a ray along which the constraints keep holding and the objective grows
Unbounded ==
    \E d \in [Pairs -> 0..1] :
        /\ Feasible(d, 0, 0, Fixed(0))
        /\ Objective(d) > 0

\* the status of a program with the feasible set F
LpStatus(F) ==
    IF F = {} THEN "Infeasible"
    ELSE IF Unbounded THEN "Unbounded"
    ELSE "Optimal"

\* the solutions the solver may return
Solutions(F) ==
    IF LpStatus(F) = "Optimal"
    THEN LET best == OptValue(F)
         IN  {q \in F : Objective(q) = best}
    ELSE Alloc

\* lines 62-146: build the program, solve it, read status and objective
Solve ==
    /\ pc = "start"
    /\ LET F == FeasibleSet(slash_avail, woodchips_avail)
       IN  /\ status_str' = LpStatus(F)
           /\ Q' \in Solutions(F)
    /\ total_net_revenue' = Objective(Q')
    /\ pc' = "solved"
    /\ UNCHANGED <<inputs, rows>>

-----------------------------------------------------------------------------
(* Detail table *)

\* 1e-6 green tons, in units: allocated < 1e-6 iff units < Threshold
Threshold == (units_per_ton + 10^6 - 1) \div 10^6

\* faulty variant: an allocation of exactly 1e-6 is skipped too (<= for <)
SkippedAtThreshold(allocated) == allocated <= Threshold

Skipped(allocated) == allocated < Threshold

\* faulty variant: Total Net Margin repeats the expression of Total Revenue
RowRevenueAsMargin(f, p, allocated) ==
    [Product            |-> p,
     Feedstock          |-> f,
     Allocated          |-> RoundDiv(100 * allocated, units_per_ton),
     DeliveredCost      |-> RoundDiv(DeliveredCost(f, p), 1),
     Revenue            |-> RoundDiv(RevenuePerTon(f, p), 1),
     NetMargin          |-> RoundDiv(NetMargin(f, p), 1),
     ProcessingCost     |-> 100 * processing_cost[p],
     Depreciation       |-> 100 * depreciation_per_ton[p],
     TotalDeliveredCost |-> RoundDiv(DeliveredCost(f, p) * allocated, units_per_ton),
     TotalRevenue       |-> RoundDiv(RevenuePerTon(f, p) * allocated, units_per_ton),
     TotalNetMargin     |-> RoundDiv(RevenuePerTon(f, p) * allocated, units_per_ton)]

\* one record of the table; per-ton fields in cents, totals in cents,
\* tonnage in hundredths of a ton
Row(f, p, allocated) ==
    [Product            |-> p,
     Feedstock          |-> f,
     Allocated          |-> RoundDiv(100 * allocated, units_per_ton),
     DeliveredCost      |-> RoundDiv(DeliveredCost(f, p), 1),
     Revenue            |-> RoundDiv(RevenuePerTon(f, p), 1),
     NetMargin          |-> RoundDiv(NetMargin(f, p), 1),
     ProcessingCost     |-> 100 * processing_cost[p],
     Depreciation       |-> 100 * depreciation_per_ton[p],
     TotalDeliveredCost |-> RoundDiv(DeliveredCost(f, p) * allocated, units_per_ton),
     TotalRevenue       |-> RoundDiv(RevenuePerTon(f, p) * allocated, units_per_ton),
     TotalNetMargin     |-> RoundDiv(NetMargin(f, p) * allocated, units_per_ton)]

\* the rows of product p: the feedstocks in order, the skipped ones left out
ProductRows(p) ==
    LET g[i \in 0..Len(feedstocks)] ==
            IF i = 0 THEN <<>>
            ELSE IF Skipped(Q[<<feedstocks[i], p>>]) THEN g[i - 1]
            ELSE Append(g[i - 1], Row(feedstocks[i], p, Q[<<feedstocks[i], p>>]))
    IN  g[Len(feedstocks)]

\* the rows of the table: the selected products in order
DetailRows ==
    LET g[i \in 0..Len(selected_products)] ==
            IF i = 0 THEN <<>> ELSE g[i - 1] \o ProductRows(selected_products[i])
    IN  g[Len(selected_products)]

\* lines 148-189: build the table and return
DetailTable ==
    /\ pc = "solved"
    /\ rows' = DetailRows
    /\ pc' = "done"
    /\ UNCHANGED <<inputs, Q, status_str, total_net_revenue>>

Next == Solve \/ DetailTable

Spec == Init /\ [][Next]_vars

-----------------------------------------------------------------------------
(* Properties *)

Solved == pc # "start"

Products == Range(selected_products)

\* tons of feedstock f allocated over all selected products
TonsOfFeedstock(f) ==
    LET T == [p \in Range(selected_products) |-> Q[<<f, p>>]]
    IN  SumOver(selected_products, T)

\* tons allocated to product p over all active feedstocks
TonsOfProduct(p) ==
    LET T == [f \in Range(feedstocks) |-> Q[<<f, p>>]]
    IN  SumOver(feedstocks, T)

\* C1: in the returned solution the slash allocated over all selected products
\* never exceeds slash_avail, and when woodchips is included the woodchips
\* allocated never exceeds woodchips_avail.
C1_FeasibilityBound ==
    Solved =>
        /\ TonsOfFeedstock("slash") <= slash_avail
        /\ include_woodchips => TonsOfFeedstock("woodchips") <= woodchips_avail

\* both availabilities are used up, by two products
C1_Witness ==
    /\ pc = "done"
    /\ include_woodchips
    /\ Len(selected_products) = 2
    /\ slash_avail = 2 * grain
    /\ woodchips_avail = 2 * grain
    /\ TonsOfFeedstock("slash") = slash_avail
    /\ TonsOfFeedstock("woodchips") = woodchips_avail
    /\ \A p \in Products : TonsOfProduct(p) > 0

\* delivered cost of the tons allocated to p, cents x units
CostOfProduct(p) ==
    LET C == [f \in Range(feedstocks) |-> DeliveredCost(f, p) * Q[<<f, p>>]]
    IN  SumOver(feedstocks, C)

\* C2: for every selected product with a nonzero total allocation, the
\* allocation-weighted average delivered cost per ton (here rounded up to the
\* next cent) is at most max_deliv_cost of the product.
C2_DeliveredCostCap ==
    Solved =>
        \A p \in Products :
            TonsOfProduct(p) > 0 =>
                (CostOfProduct(p) + TonsOfProduct(p) - 1) \div TonsOfProduct(p)
                    <= 100 * max_deliv_cost[p]

\* a blend: slash alone is above the cap of p, woodchips brings the average under
C2_Witness ==
    /\ pc = "done"
    /\ include_woodchips
    /\ \E p \in Products :
        /\ DeliveredCost("slash", p) > 100 * max_deliv_cost[p]
        /\ Q[<<"slash", p>>] > 0
        /\ Q[<<"woodchips", p>>] > 0

\* C3: for every selected product the allocation summed over the active
\* feedstocks is at most max_volume of the product.
C3_VolumeCap ==
    Solved => \A p \in Products : TonsOfProduct(p) <= max_volume[p]

\* the volume cap of a product binds, filled by both feedstocks
C3_Witness ==
    /\ pc = "done"
    /\ include_woodchips
    /\ \E p \in Products :
        /\ TonsOfProduct(p) = max_volume[p]
        /\ Q[<<"slash", p>>] > 0
        /\ Q[<<"woodchips", p>>] > 0
        /\ slash_avail + woodchips_avail > max_volume[p]

\* sum of the "Total Net Margin ($)" field over the emitted rows, cents
SumTotalNetMargin ==
    LET f[i \in 0..Len(rows)] ==
            IF i = 0 THEN 0 ELSE f[i - 1] + rows[i].TotalNetMargin
    IN  f[Len(rows)]

Abs(x) == IF x < 0 THEN -x ELSE x

C5_Monotonicity ==
    (pc = "done" /\ status_str = "Optimal") =>
        /\ \A a \in Avails :
            a > slash_avail =>
                LET F == FeasibleSet(a, woodchips_avail)
                IN  LpStatus(F) = "Optimal" => OptValue(F) >= total_net_revenue
        /\ include_woodchips =>
            \A a \in Avails :
                a > woodchips_avail =>
                    LET F == FeasibleSet(slash_avail, a)
                    IN  LpStatus(F) = "Optimal" => OptValue(F) >= total_net_revenue

\* more slash gives strictly more revenue, more woodchips gives none
C5_Witness ==
    /\ pc = "done"
    /\ include_woodchips
    /\ slash_avail = grain
    /\ woodchips_avail = grain
    /\ total_net_revenue > 0
    /\ OptValue(FeasibleSet(2 * grain, woodchips_avail)) > total_net_revenue
    /\ OptValue(FeasibleSet(slash_avail, 2 * grain)) = total_net_revenue

\* C6: one selected product p, woodchips not included, positive net margin of
\* slash, delivered cost of slash within the cap, max_volume at least
\* slash_avail: the status is Optimal, all of slash_avail is allocated to p,
\* and total_net_revenue is the net margin per ton times slash_avail.
C6_FullAllocation ==
    (/\ Solved
     /\ Len(selected_products) = 1
     /\ ~include_woodchips
     /\ NetMargin("slash", selected_products[1]) > 0
     /\ DeliveredCost("slash", selected_products[1])
            <= 100 * max_deliv_cost[selected_products[1]]
     /\ max_volume[selected_products[1]] >= slash_avail)
    =>
        /\ status_str = "Optimal"
        /\ Q[<<"slash", selected_products[1]>>] = slash_avail
        /\ total_net_revenue
            = NetMargin("slash", selected_products[1]) * slash_avail

\* Scenario A: 1000 tons of slash to Biochar at 89.00 $/gt give 89000.00 $
C6_Witness ==
    /\ pc = "done"
    /\ selected_products = <<"Biochar">>
    /\ ~include_woodchips
    /\ units_per_ton = 2
    /\ slash_avail = 2000
    /\ market_price["Biochar"] = 150
    /\ max_deliv_cost["Biochar"] = 130
    /\ slash_carbon_credit["Biochar"] = 15
    /\ reg_factor = 20
    /\ DeliveredCost("slash", "Biochar") = 7600
    /\ NetMargin("slash", "Biochar") = 8900
    /\ status_str = "Optimal"
    /\ Q[<<"slash", "Biochar">>] = 2000
    /\ total_net_revenue = 8900000 * units_per_ton
    /\ Len(rows) = 1
    /\ rows[1].TotalNetMargin = 8900000

\* every active feedstock of p is delivered above the cap of p
CappedOut(p) ==
    \A f \in Range(feedstocks) : DeliveredCost(f, p) > 100 * max_deliv_cost[p]

\* C7: a selected product whose delivered cost is above its cap for every
\* active feedstock gets no allocation and no row, with status Optimal; when
\* this is so for every selected product, total_net_revenue is 0 and the
\* table is empty.
C7_CappedOutProduct ==
    Solved =>
        /\ \A p \in Products :
            CappedOut(p) =>
                /\ status_str = "Optimal"
                /\ \A f \in Range(feedstocks) : Q[<<f, p>>] = 0
                /\ pc = "done" => \A i \in 1..Len(rows) : rows[i].Product # p
        /\ (\A p \in Products : CappedOut(p)) =>
                /\ total_net_revenue = 0
                /\ pc = "done" => rows = <<>>

\* Biochar is capped out for slash and woodchips, which go to RNG instead
C7_Witness ==
    /\ pc = "done"
    /\ include_woodchips
    /\ selected_products = <<"Biochar", "RNG">>
    /\ CappedOut("Biochar")
    /\ NetMargin("slash", "Biochar") > NetMargin("slash", "RNG")
    /\ slash_avail > 0
    /\ woodchips_avail > 0
    /\ Q[<<"slash", "Biochar">>] = 0
    /\ Q[<<"woodchips", "Biochar">>] = 0
    /\ Len(rows) = 2
    /\ status_str = "Optimal"

\* the (feedstock, product) pairs in the order of the loops: products in the
\* order selected, for each the feedstocks slash then woodchips
PairOrder ==
    LET nf == Len(feedstocks)
    IN  [i \in 1..(Len(selected_products) * nf) |->
            <<feedstocks[((i - 1) % nf) + 1], selected_products[((i - 1) \div nf) + 1]>>]

RowKeys == [i \in 1..Len(rows) |-> <<rows[i].Feedstock, rows[i].Product>>]

\* C8 as stated: the table holds one row for each pair with Q > 1e-6 and no
\* other row, in product-major order.
C8_RowsAboveThreshold ==
    pc = "done" =>
        LET Above(k) == Q[k] > units_per_ton \div 10^6
        IN  RowKeys = SelectSeq(PairOrder, Above)

\* C8 amended: the table holds one row for each pair with Q >= 1e-6 and no
\* other row, in product-major order (products as selected, slash before
\* woodchips).
C8_RowsFromThreshold ==
    pc = "done" =>
        LET AtLeast(k) == Q[k] >= Threshold
        IN  RowKeys = SelectSeq(PairOrder, AtLeast)

\* RNG selected before Biochar; an allocation of exactly 1e-6 tons has a row,
\* a smaller nonzero one has none
C8_Witness ==
    /\ pc = "done"
    /\ selected_products = <<"RNG", "Biochar">>
    /\ include_woodchips
    /\ Threshold > 1
    /\ \E k \in Pairs : Q[k] = Threshold
    /\ \E k \in Pairs : Q[k] > 0 /\ Q[k] < Threshold
    /\ Len(rows) >= 1

\* C9 as stated: every pair with a negative net margin per ton has Q = 0.
C9_NegativeMarginZero ==
    Solved => \A k \in Pairs : NetMargin(k[1], k[2]) < 0 => Q[k] = 0

\* tons of f lower the average delivered cost of p, which another active
\* feedstock alone would exceed
Blends(f, p) ==
    /\ DeliveredCost(f, p) < 100 * max_deliv_cost[p]
    /\ \E g \in Range(feedstocks) :
        g # f /\ DeliveredCost(g, p) > 100 * max_deliv_cost[p]

\* C9 amended: every pair with a negative net margin per ton has Q = 0,
\* unless its delivered cost is below the cap of the product while the other
\* active feedstock's delivered cost for that product is above the cap.
C9_NegativeMarginZeroUnlessBlend ==
    Solved =>
        \A k \in Pairs :
            (NetMargin(k[1], k[2]) < 0 /\ ~Blends(k[1], k[2])) => Q[k] = 0

\* woodchips would lose money on Biochar and is left unused, slash is allocated
C9_Witness ==
    /\ pc = "done"
    /\ include_woodchips
    /\ selected_products = <<"Biochar">>
    /\ NetMargin("woodchips", "Biochar") < 0
    /\ ~Blends("woodchips", "Biochar")
    /\ woodchips_avail > 0
    /\ Q[<<"woodchips", "Biochar">>] = 0
    /\ Q[<<"slash", "Biochar">>] > 0

AvailOf(f) == IF f = "slash" THEN slash_avail ELSE woodchips_avail

\* C10: the program is feasible (Q = 0 satisfies every constraint) and
\* bounded (every Q[f,p] is at most the availability of f): the status is
\* Optimal and total_net_revenue is not negative.
C10_AlwaysOptimal ==
    Solved =>
        /\ Feasible([k \in Pairs |-> 0], slash_avail, woodchips_avail, max_volume)
        /\ \A k \in Pairs : Q[k] <= AvailOf(k[1])
        /\ status_str = "Optimal"
        /\ total_net_revenue >= 0

\* nothing can be allocated with profit although both feedstocks are available
C10_Witness ==
    /\ pc = "done"
    /\ include_woodchips
    /\ slash_avail > 0
    /\ woodchips_avail > 0
    /\ \E k \in Pairs : NetMargin(k[1], k[2]) < 0
    /\ status_str = "Optimal"
    /\ total_net_revenue = 0
    /\ rows = <<>>

====
